---- MODULE Spec2Model ----
(***************************************************************************)
(* The nipahblocks session server (crates/nipahblocks_server/src/main.rs)  *)
(* as a state machine.  One process per accepted connection: the tokio     *)
(* task running accept_connection.  A step of a process is the code        *)
(* between two suspension points (an .await that can be pending): taking a *)
(* lock of State, or sending into a bounded mpsc channel.                  *)
(*                                                                         *)
(* State.players is a tokio RwLock.  Every write guard in the source is a  *)
(* temporary that is dropped in the statement that takes it, so a write    *)
(* is one step, enabled when no process holds a read guard.  Read guards   *)
(* of State.players are held across the sends of a fan-out, so they are    *)
(* part of a process's position (Holding).  State.history and State.chunks *)
(* are only ever locked for one statement without an .await inside.        *)
(*                                                                         *)
(* HISTORY_SIZE and PLAYER_CH_SIZE are 50 and 100 in the source; the model *)
(* runs them scaled down, keeping HISTORY_SIZE + 1 <= PLAYER_CH_SIZE (a    *)
(* join alone never fills the joiner's channel).  ChatMessage.time is not  *)
(* modelled: no operation of the server reads it.                          *)
(*                                                                         *)
(* Chunk::new (crates/nipahblocks_api/src/chunk.rs) is an operator.  The   *)
(* chunk is WIDTH x WIDTH columns of HEIGHT cells (16 and 256 in the       *)
(* source) and a column is MIN_TERRAIN_HEIGHT..MAX_TERRAIN_HEIGHT cells    *)
(* high (64..128 in the source); the model runs them scaled down, keeping  *)
(* 3 < MIN_TERRAIN_HEIGHT < MAX_TERRAIN_HEIGHT < HEIGHT.  The noise source *)
(* is opaque: a field of samples in [-1, 1], in steps of 1 / NoiseUnits.   *)
(***************************************************************************)
EXTENDS Integers, Sequences, FiniteSets, TLC

\* ---------------------------------------------------------------- bounds
NConns == 2
MaxInbound == 2
MaxChunk == 1
MaxPos == 1
HISTORY_SIZE == 2
PLAYER_CH_SIZE == 3
WIDTH == 2
HEIGHT == 8
MIN_TERRAIN_HEIGHT == 5
MAX_TERRAIN_HEIGHT == 6
NoiseUnits == 2

Conns == 1..NConns
\* ChunkId { x, y }: (0, 0), (-1, 1), ...
ChunkIds == {[x |-> 1 - i, y |-> i - 1] : i \in 1..MaxChunk}
Positions == 1..MaxPos

VARIABLES
    noise,      \* State.noise: the sample of the noise source at every column
    port,       \* port[c]: addr.port() of connection c, its PlayerId
    pc,         \* pc[c]: position of the task of connection c
    players,    \* State.players: PlayerId -> PlayerState
    history,    \* State.history
    chunks,     \* State.chunks: ChunkId -> Chunk
    queue,      \* queue[c]: messages buffered in the mpsc channel of c
    closed,     \* closed[c]: the receiver of the channel of c was dropped
    delivered,  \* delivered[c]: number of messages write_task of c gave to the transport
    fan,        \* fan[c]: the broadcast in progress, [msg, todo]
    uni,        \* uni[c]: messages the task still has to send to its own player
    inbox,      \* inbox[c]: number of inbound frames read so far
    genCount,   \* genCount[k]: number of executions of Chunk::new for k
    chunkGen,   \* chunkGen[k]: which execution of Chunk::new made the cached chunk of k
    stored,     \* every chat message in the order history stored it
    enq,        \* enq[c]: every send into the channel of c that returned Ok
    bcast,      \* bcast[c]: the last fan-out of c: State.players when it began
                \* (snap), the players it has enqueued to (sent) and its status
    replaySnap  \* replaySnap[c]: State.history when c took its snapshot

vars == <<noise, port, pc, players, history, chunks, queue, closed, delivered, fan, uni,
          inbox, genCount, chunkGen, stored, enq, bcast, replaySnap>>

\* ---------------------------------------------------------------- messages
ChatMessage(user_id, content) == [user_id |-> user_id, content |-> content]

MsgChat(m) == [type |-> "ChatMessage", chat |-> m]
MsgPlayers(ids) == [type |-> "Players", ids |-> ids]
MsgPlayerConnected(id) == [type |-> "PlayerConnected", id |-> id]
MsgPlayerDisconnected(id) == [type |-> "PlayerDisconnected", id |-> id]
MsgPlayerMoved(id, pos) == [type |-> "PlayerMoved", id |-> id, position |-> pos]
MsgChunk(chunk) == [type |-> "Chunk", chunk |-> chunk]

NoMsg == [type |-> "none"]
NoFan == [msg |-> NoMsg, todo |-> {}]

\* Position::default()
DefaultPosition == 0

PlayerState(id, tx) == [id |-> id, position |-> DefaultPosition, tx |-> tx]

\* ---------------------------------------------------------------- terrain
HALF_WIDTH == WIDTH \div 2
SIZE == WIDTH * WIDTH * HEIGHT
MAX_TERRAIN_AMPLITUDE == MAX_TERRAIN_HEIGHT - MIN_TERRAIN_HEIGHT

\* vec![None; SIZE]: the cell holds no block
NoBlock == 0

\* Chunk::get_block_index
GetBlockIndex(x, y, z) == z * WIDTH * WIDTH + y * WIDTH + x

\* ChunkId::starting_position
StartingPosition(chunk_id) ==
    [x |-> chunk_id.x * WIDTH - HALF_WIDTH, y |-> chunk_id.y * WIDTH - HALF_WIDTH]

\* the columns Chunk::new samples for a chunk: (global_x, global_y)
ColumnsOf(chunk_id) ==
    {<<StartingPosition(chunk_id).x + x, StartingPosition(chunk_id).y + y>> :
        x \in 0..(WIDTH - 1), y \in 0..(WIDTH - 1)}

GlobalColumns == UNION {ColumnsOf(k) : k \in ChunkIds}

\* NoiseFn::get: a sample s stands for the value s / NoiseUnits of [-1, 1]
NoiseValues == (0 - NoiseUnits)..NoiseUnits

\* f32::round of p / q for p >= 0, q > 0: halves go away from zero
Round(p, q) == (2 * p + q) \div (2 * q)

\* lines 77-79: (noise_value + 1.0) / 2.0, then
\* MIN_TERRAIN_HEIGHT + (noise_value * MAX_TERRAIN_AMPLITUDE).round() as usize
TerrainHeight(sample) ==
    MIN_TERRAIN_HEIGHT
        + Round((sample + NoiseUnits) * MAX_TERRAIN_AMPLITUDE, 2 * NoiseUnits)

\* lines 84-88: the match on depth
BlockOfDepth(depth) ==
    CASE depth = 0 -> 3
      [] depth \in 1..3 -> 2
      [] OTHER -> 1

\* Chunk::new: a function of the noise source and the chunk id only.  Line 80
\* gives the cell z of a column of height h the depth h - z, for z in 0..h-1.
ChunkNew(nz, chunk_id) ==
    LET start == StartingPosition(chunk_id)
        height(x, y) == TerrainHeight(nz[<<start.x + x, start.y + y>>])
        cells == {c \in (0..(WIDTH - 1)) \X (0..(WIDTH - 1)) \X (0..(HEIGHT - 1)) :
                     c[3] < height(c[1], c[2])}
        at(i) == {c \in cells : GetBlockIndex(c[1], c[2], c[3]) = i}
        depth(c) == height(c[1], c[2]) - c[3]
    IN  [id |-> chunk_id,
         blocks |-> [i \in 0..(SIZE - 1) |->
                        IF at(i) = {} THEN NoBlock
                        ELSE BlockOfDepth(depth(CHOOSE c \in at(i) : TRUE))]]

\* ---------------------------------------------------------------- positions of a task
FanStates == {"fan_connected", "fan_chat", "fan_moved", "fan_left"}
UniStates == {"replay", "list", "chunk"}
LockStates == {"connected", "replay_lock", "chat", "moved", "list_lock",
               "chunk_lock", "left"}
\* tasks that give their read guard back before they send
HoldingNothing == {}

\* the states in which the task holds a read guard of State.players
Holding == FanStates \cup UniStates
\* the states in which tokio::select! polls read_task and write_task
SelectRunning == {"active", "chat", "fan_chat", "moved", "fan_moved",
                  "list_lock", "list", "chunk_lock", "chunk"}
Panicked == {"panic_decode", "panic_send", "panic_index"}
Ended == Panicked \cup {"closed"}

\* where a task goes when the operation it is in returns
After(state) ==
    CASE state \in {"connected", "fan_connected"} -> "history"
      [] state \in {"left", "fan_left"} -> "closed"
      [] OTHER -> "active"

\* the state of a task once it holds the read guard it waited for
Locked(state) ==
    CASE state = "connected" -> "fan_connected"
      [] state = "chat" -> "fan_chat"
      [] state = "moved" -> "fan_moved"
      [] state = "left" -> "fan_left"
      [] state = "replay_lock" -> "replay"
      [] state = "list_lock" -> "list"
      [] state = "chunk_lock" -> "chunk"

\* ---------------------------------------------------------------- shared state
\* HashMap::insert: a new entry, or the entry of an equal key replaced
Insert(map, k, v) == [x \in DOMAIN map \cup {k} |-> IF x = k THEN v ELSE map[x]]

\* a cache that keeps the chunk generated last for a key
OrInsertReplacing(map, k, v) == Insert(map, k, v)

\* Entry::or_insert(v): the entry of a present key is kept, v is dropped
OrInsert(map, k, v) == IF k \in DOMAIN map THEN map ELSE Insert(map, k, v)

\* HashMap::remove
Remove(map, k) == [x \in DOMAIN map \ {k} |-> map[x]]

\* Entry::and_modify(|player| player.position = position): nothing for an absent key
AndModifyPosition(map, k, pos) ==
    [x \in DOMAIN map |-> IF x = k THEN [map[x] EXCEPT !.position = pos] ELSE map[x]]

\* a history that evicts only once it holds more than HISTORY_SIZE entries
PushHistoryLate(h, message) ==
    Append(IF Len(h) > HISTORY_SIZE THEN Tail(h) ELSE h, message)

\* history.pop_front() at HISTORY_SIZE entries, then history.push_back(message)
PushHistory(h, message) ==
    Append(IF Len(h) = HISTORY_SIZE THEN Tail(h) ELSE h, message)

\* a snapshot that hands the history out newest first
SnapshotNewestFirst(h) == [i \in 1..Len(h) |-> h[Len(h) + 1 - i]]

\* self.history.read().await.clone(): the whole history, oldest first
Snapshot(h) == h

\* a registry whose writers do not wait for the read guards of the fan-outs
WriteLockIgnored == TRUE

\* players.write(): granted when no task holds a read guard of State.players
WriteLockFree == \A c \in Conns : pc[c] \notin Holding

\* a channel without a capacity (mpsc::unbounded_channel)
HasRoomUnbounded(ch) == TRUE

\* Sender::send is pending while the channel holds PLAYER_CH_SIZE messages
HasRoom(ch) == Len(queue[ch]) < PLAYER_CH_SIZE

\* which part of accept_connection a send belongs to
Phase(state) ==
    CASE state \in {"connected", "fan_connected", "replay_lock", "replay"} -> "join"
      [] state \in {"left", "fan_left"} -> "leave"
      [] OTHER -> "msg"

\* the index, in arrival order, of the frame read_task takes next from the stream
NextOp(c) == inbox[c] + 1

\* the record kept of a send that returned Ok
Sent(c, msg) == [msg |-> msg, by |-> c, op |-> inbox[c], phase |-> Phase(pc[c])]

\* the receiver of c is dropped: the channel closes, what it buffered is lost,
\* and the record of what went through it ends with it
DropReceiver(c) ==
    /\ closed' = [closed EXCEPT ![c] = TRUE]
    /\ queue' = [queue EXCEPT ![c] = <<>>]
    /\ enq' = [enq EXCEPT ![c] = <<>>]
    /\ delivered' = [delivered EXCEPT ![c] = 0]

\* the future of the handler of c is dropped where it is suspended: the sends it
\* had not made yet are never made
DropHandler(c) ==
    /\ fan' = [fan EXCEPT ![c] = NoFan]
    /\ uni' = [uni EXCEPT ![c] = <<>>]
    /\ bcast' = IF pc[c] \in FanStates THEN [bcast EXCEPT ![c].status = "aborted"]
                ELSE bcast

\* a panic unwinds accept_connection: its futures and guards are dropped, and
\* line 240 (remove) is never reached
Crash(c, how) ==
    /\ pc' = [pc EXCEPT ![c] = how]
    /\ DropReceiver(c)
    /\ DropHandler(c)

\* self.tx.send(msg).await returned Ok: msg is buffered in channel ch
Enqueue(c, ch, msg) ==
    /\ queue' = [queue EXCEPT ![ch] = Append(@, msg)]
    /\ enq' = [enq EXCEPT ![ch] = Append(@, Sent(c, msg))]

\* ---------------------------------------------------------------- join
\* accept_connection, lines 197-216: the handshake is done, the player is inserted
Join(c) ==
    /\ pc[c] = "connecting"
    /\ WriteLockFree
    /\ players' = Insert(players, port[c], PlayerState(port[c], c))
    /\ fan' = [fan EXCEPT ![c] = [msg |-> MsgPlayerConnected(port[c]), todo |-> {}]]
    /\ pc' = [pc EXCEPT ![c] = "connected"]
    /\ UNCHANGED <<noise, port, history, chunks, queue, closed, delivered, uni, inbox,
                   genCount, chunkGen, stored, enq, bcast, replaySnap>>

\* State::send_history, line 97
SnapshotHistory(c) ==
    /\ pc[c] = "history"
    /\ uni' = [uni EXCEPT ![c] =
                  [i \in 1..Len(Snapshot(history)) |-> MsgChat(Snapshot(history)[i])]]
    /\ replaySnap' = [replaySnap EXCEPT ![c] = history]
    /\ pc' = [pc EXCEPT ![c] = "replay_lock"]
    /\ UNCHANGED <<noise, port, players, history, chunks, queue, closed, delivered, fan,
                   inbox, genCount, chunkGen, stored, enq, bcast>>

\* ---------------------------------------------------------------- broadcasts
\* `for player in self.players.read().await.values()`: the read guard is taken and
\* lives until the loop ends
AcquireFan(c) ==
    /\ pc[c] \in {"connected", "chat", "moved", "left"}
    /\ bcast' = [bcast EXCEPT ![c] =
                    [snap |-> players, sent |-> {},
                     status |-> IF DOMAIN players = {} THEN "done" ELSE "running"]]
    /\ IF DOMAIN players = {}
       THEN /\ pc' = [pc EXCEPT ![c] = After(pc[c])]
            /\ fan' = [fan EXCEPT ![c] = NoFan]
       ELSE /\ pc' = [pc EXCEPT ![c] = Locked(pc[c])]
            /\ fan' = [fan EXCEPT ![c].todo = DOMAIN players]
    /\ UNCHANGED <<noise, port, players, history, chunks, queue, closed, delivered, uni,
                   inbox, genCount, chunkGen, stored, enq, replaySnap>>

\* one iteration of the loop: player.send_server_message(msg).await for the
\* player of key t (a HashMap iterates in no particular order)
FanStep(c, t) ==
    /\ pc[c] \in FanStates
    /\ t \in fan[c].todo \cap DOMAIN players
    /\ LET ch == players[t].tx
           rest == fan[c].todo \ {t}
       IN  IF closed[ch]
           THEN Crash(c, "panic_send")
           ELSE /\ HasRoom(ch)
                /\ Enqueue(c, ch, fan[c].msg)
                /\ bcast' = [bcast EXCEPT ![c].sent = @ \cup {t},
                                          ![c].status = IF rest = {} THEN "done"
                                                        ELSE "running"]
                /\ fan' = [fan EXCEPT ![c] = IF rest = {} THEN NoFan
                                             ELSE [@ EXCEPT !.todo = rest]]
                /\ pc' = [pc EXCEPT ![c] = IF rest = {} THEN After(pc[c]) ELSE pc[c]]
                /\ UNCHANGED <<closed, uni, delivered>>
    /\ UNCHANGED <<noise, port, players, history, chunks, inbox, genCount, chunkGen,
                   stored, replaySnap>>

\* ---------------------------------------------------------------- unicasts
\* a list that leaves out the players whose channel is closed
PlayerListOpen(map) == {map[k].id : k \in {x \in DOMAIN map : ~closed[map[x].tx]}}

\* line 146: players.values().map(|player| player.id).collect()
PlayerList(map) == {map[k].id : k \in DOMAIN map}

\* self.players.read().await[&player_id] in send_history and send_chunk, and
\* lines 145-147 of send_player_list: the guard is taken, the requester's entry is
\* indexed (a panic when absent) and the guard lives until the sends are done
AcquireUni(c) ==
    /\ pc[c] \in {"replay_lock", "list_lock", "chunk_lock"}
    /\ LET out == IF pc[c] = "list_lock"
                  THEN <<MsgPlayers(PlayerList(players))>>
                  ELSE uni[c]
       IN  IF port[c] \notin DOMAIN players
           THEN Crash(c, "panic_index")
           ELSE /\ uni' = [uni EXCEPT ![c] = out]
                /\ pc' = [pc EXCEPT ![c] = IF out = <<>> THEN After(pc[c])
                                           ELSE Locked(pc[c])]
                /\ UNCHANGED <<queue, closed, fan, bcast, enq, delivered>>
    /\ UNCHANGED <<noise, port, players, history, chunks, inbox, genCount, chunkGen,
                   stored, replaySnap>>

\* one send_server_message to the requester's own entry
UniStep(c) ==
    /\ pc[c] \in UniStates
    /\ port[c] \in DOMAIN players
    /\ LET ch == players[port[c]].tx
           rest == Tail(uni[c])
       IN  IF closed[ch]
           THEN Crash(c, "panic_send")
           ELSE /\ HasRoom(ch)
                /\ Enqueue(c, ch, Head(uni[c]))
                /\ uni' = [uni EXCEPT ![c] = rest]
                /\ pc' = [pc EXCEPT ![c] = IF rest = <<>> THEN After(pc[c]) ELSE pc[c]]
                /\ UNCHANGED <<closed, fan, bcast, delivered>>
    /\ UNCHANGED <<noise, port, players, history, chunks, inbox, genCount, chunkGen,
                   stored, replaySnap>>

\* ---------------------------------------------------------------- read_task
RECURSIVE SumOver(_, _)
SumOver(f, S) ==
    IF S = {} THEN 0
    ELSE LET x == CHOOSE y \in S : TRUE IN f[x] + SumOver(f, S \ {x})

\* the clients send MaxInbound frames in all
MoreInbound == SumOver(inbox, Conns) < MaxInbound

\* a read_task that takes the next frame while the handler of the previous one is
\* still suspended (the handlers run concurrently)
ReadEager(c) == pc[c] \in SelectRunning

\* read_task awaits the next frame: the handler of the previous one has returned
\* (StreamExt::for_each runs one future at a time)
ReadIdle(c) == pc[c] = "active"

\* PlayerMessage::Message(content): State::send_chat_message, lines 116-127.
\* The content stands for the frame: it is the frame's index on its connection.
RecvChat(c) ==
    /\ ReadIdle(c)
    /\ MoreInbound
    /\ LET message == ChatMessage(port[c], NextOp(c))
       IN  /\ history' = PushHistory(history, message)
           /\ stored' = Append(stored, message)
           /\ fan' = [fan EXCEPT ![c] = [msg |-> MsgChat(message), todo |-> {}]]
    /\ inbox' = [inbox EXCEPT ![c] = NextOp(c)]
    /\ pc' = [pc EXCEPT ![c] = "chat"]
    /\ UNCHANGED <<noise, port, players, chunks, queue, closed, delivered, uni,
                   genCount, chunkGen, enq, bcast, replaySnap>>

\* PlayerMessage::UpdatePosition(pos): State::update_player_position, lines 134-138
RecvUpdatePosition(c, pos) ==
    /\ ReadIdle(c)
    /\ MoreInbound
    /\ WriteLockFree
    /\ players' = AndModifyPosition(players, port[c], pos)
    /\ fan' = [fan EXCEPT ![c] = [msg |-> MsgPlayerMoved(port[c], pos), todo |-> {}]]
    /\ inbox' = [inbox EXCEPT ![c] = NextOp(c)]
    /\ pc' = [pc EXCEPT ![c] = "moved"]
    /\ UNCHANGED <<noise, port, history, chunks, queue, closed, delivered, uni,
                   genCount, chunkGen, stored, enq, bcast, replaySnap>>

\* PlayerMessage::FetchPlayers: State::send_player_list is entered
RecvFetchPlayers(c) ==
    /\ ReadIdle(c)
    /\ MoreInbound
    /\ inbox' = [inbox EXCEPT ![c] = NextOp(c)]
    /\ pc' = [pc EXCEPT ![c] = "list_lock"]
    /\ UNCHANGED <<noise, port, players, history, chunks, queue, closed, delivered, fan,
                   uni, genCount, chunkGen, stored, enq, bcast, replaySnap>>

\* PlayerMessage::FetchChunk(chunk_id): State::send_chunk, lines 151-157.
\* or_insert takes a value, not a closure: Chunk::new(&self.noise, chunk_id) is
\* evaluated before or_insert looks at the entry.
RecvFetchChunk(c, chunk_id) ==
    /\ ReadIdle(c)
    /\ MoreInbound
    /\ genCount' = [genCount EXCEPT ![chunk_id] = @ + 1]
    /\ chunks' = OrInsert(chunks, chunk_id, ChunkNew(noise, chunk_id))
    /\ chunkGen' = OrInsert(chunkGen, chunk_id, genCount'[chunk_id])
    /\ uni' = [uni EXCEPT ![c] = <<MsgChunk(chunks'[chunk_id])>>]
    /\ inbox' = [inbox EXCEPT ![c] = NextOp(c)]
    /\ pc' = [pc EXCEPT ![c] = "chunk_lock"]
    /\ UNCHANGED <<noise, port, players, history, queue, closed, delivered, fan, stored,
                   enq, bcast, replaySnap>>

\* a frame that is no PlayerMessage (payload bincode rejects, or a Text, Ping,
\* Pong or Close frame): msg.try_into() is Err and line 232 unwraps it
RecvUndecodable(c) ==
    /\ ReadIdle(c)
    /\ MoreInbound
    /\ inbox' = [inbox EXCEPT ![c] = NextOp(c)]
    /\ Crash(c, "panic_decode")
    /\ UNCHANGED <<noise, port, players, history, chunks, genCount, chunkGen, stored,
                   replaySnap>>

\* the transport reports an error or the end of the stream: read_task finishes,
\* select! returns and drops write_task with the receiver
ReadEnd(c) ==
    /\ ReadIdle(c)
    /\ pc' = [pc EXCEPT ![c] = "leaving"]
    /\ DropReceiver(c)
    /\ UNCHANGED <<noise, port, players, history, chunks, fan, uni, inbox, genCount,
                   chunkGen, stored, bcast, replaySnap>>

\* ---------------------------------------------------------------- write_task
\* player_rx.map(..).forward(write): the oldest buffered message goes to the transport
Deliver(c) ==
    /\ pc[c] \in SelectRunning
    /\ queue[c] # <<>>
    /\ delivered' = [delivered EXCEPT ![c] = @ + 1]
    /\ queue' = [queue EXCEPT ![c] = Tail(@)]
    /\ UNCHANGED <<noise, port, pc, players, history, chunks, closed, fan, uni, inbox,
                   genCount, chunkGen, stored, enq, bcast, replaySnap>>

\* read_task returned Poll::Pending: it waits for a frame, for a lock, or for room
\* in a channel
HandlerPending(c) ==
    \/ pc[c] = "active"
    \/ pc[c] \in LockStates
    \/ /\ pc[c] \in FanStates
       /\ \E t \in fan[c].todo \cap DOMAIN players :
             ~closed[players[t].tx] /\ ~HasRoom(players[t].tx)
    \/ /\ pc[c] \in UniStates
       /\ port[c] \in DOMAIN players
       /\ ~closed[players[port[c]].tx] /\ ~HasRoom(players[port[c]].tx)

\* the transport refuses a write: forward ends with the error, select! returns and
\* drops read_task where it is suspended, with the guard it holds
WriteError(c) ==
    /\ pc[c] \in SelectRunning
    /\ queue[c] # <<>>
    /\ HandlerPending(c)
    /\ pc' = [pc EXCEPT ![c] = "leaving"]
    /\ DropReceiver(c)
    /\ DropHandler(c)
    /\ UNCHANGED <<noise, port, players, history, chunks, inbox, genCount, chunkGen,
                   stored, replaySnap>>

\* ---------------------------------------------------------------- leave
\* line 240: state.players.write().await.remove(&user_id)
Leave(c) ==
    /\ pc[c] = "leaving"
    /\ WriteLockFree
    /\ players' = Remove(players, port[c])
    /\ fan' = [fan EXCEPT ![c] = [msg |-> MsgPlayerDisconnected(port[c]), todo |-> {}]]
    /\ pc' = [pc EXCEPT ![c] = "left"]
    /\ UNCHANGED <<noise, port, history, chunks, queue, closed, delivered, uni, inbox,
                   genCount, chunkGen, stored, enq, bcast, replaySnap>>

\* ---------------------------------------------------------------- specification
\* the channels, the tasks' handlers, the chunk cache and the records, all empty
InitChannels ==
    /\ chunks = <<>>
    /\ queue = [c \in Conns |-> <<>>]
    /\ closed = [c \in Conns |-> FALSE]
    /\ delivered = [c \in Conns |-> 0]
    /\ fan = [c \in Conns |-> NoFan]
    /\ uni = [c \in Conns |-> <<>>]
    /\ inbox = [c \in Conns |-> 0]
    /\ genCount = [k \in ChunkIds |-> 0]
    /\ chunkGen = <<>>
    /\ enq = [c \in Conns |-> <<>>]
    /\ bcast = [c \in Conns |-> [snap |-> <<>>, sent |-> {}, status |-> "none"]]
    /\ replaySnap = [c \in Conns |-> <<>>]

\* State::new, and connections whose handshake has not completed yet
InitState ==
    /\ pc = [c \in Conns |-> "connecting"]
    /\ players = <<>>
    /\ history = <<>>
    /\ stored = <<>>
    /\ InitChannels

\* Perlin::new(NOISE_SEED): one field, fixed for the life of the server; here the
\* one that alternates between the lowest and the highest sample
Perlin ==
    [g \in GlobalColumns |->
        IF (g[1] + g[2]) % 2 = 0 THEN NoiseUnits ELSE 0 - NoiseUnits]

\* the peers have pairwise different ports (clients of one host)
Init ==
    /\ noise = Perlin
    /\ port = [c \in Conns |-> c]
    /\ InitState

Next ==
    \/ \E c \in Conns : Join(c)
    \/ \E c \in Conns : AcquireFan(c)
    \/ \E c \in Conns : \E t \in Conns : FanStep(c, t)
    \/ \E c \in Conns : SnapshotHistory(c)
    \/ \E c \in Conns : AcquireUni(c)
    \/ \E c \in Conns : UniStep(c)
    \/ \E c \in Conns : RecvChat(c)
    \/ \E c \in Conns : \E pos \in Positions : RecvUpdatePosition(c, pos)
    \/ \E c \in Conns : RecvFetchPlayers(c)
    \/ \E c \in Conns : \E k \in ChunkIds : RecvFetchChunk(c, k)
    \/ \E c \in Conns : RecvUndecodable(c)
    \/ \E c \in Conns : ReadEnd(c)
    \/ \E c \in Conns : Deliver(c)
    \/ \E c \in Conns : WriteError(c)
    \/ \E c \in Conns : Leave(c)

Spec == Init /\ [][Next]_vars

\* the runtime polls write_task whenever its channel holds a message, and the
\* transport of a connection that stays open accepts the write
FairSpec == Spec /\ \A c \in Conns : WF_vars(Deliver(c))

\* ---------------------------------------------------------------- other starts
\* two peers of different hosts whose source ports are equal: addr.port() gives
\* both connections the same PlayerId
InitPeers ==
    /\ noise = Perlin
    /\ port = [c \in Conns |-> 1]
    /\ InitState

SpecPeers == InitPeers /\ [][Next]_vars

\* the HISTORY_SIZE messages that sessions which have left stored before
PastHistory == [i \in 1..HISTORY_SIZE |-> ChatMessage(0, i - HISTORY_SIZE)]

\* a server whose history is full: earlier sessions chatted and left
InitHistory ==
    /\ noise = Perlin
    /\ port = [c \in Conns |-> c]
    /\ pc = [c \in Conns |-> "connecting"]
    /\ players = <<>>
    /\ history = PastHistory
    /\ stored = PastHistory
    /\ InitChannels

SpecHistory == InitHistory /\ [][Next]_vars

\* any noise source, and every connection joined and idle
InitTerrain ==
    /\ noise \in [GlobalColumns -> NoiseValues]
    /\ port = [c \in Conns |-> c]
    /\ pc = [c \in Conns |-> "active"]
    /\ players = [p \in Conns |-> PlayerState(p, p)]
    /\ history = <<>>
    /\ stored = <<>>
    /\ InitChannels

\* clients that only fetch chunks
NextTerrain ==
    \/ \E c \in Conns : \E k \in ChunkIds : RecvFetchChunk(c, k)
    \/ \E c \in Conns : AcquireUni(c)
    \/ \E c \in Conns : UniStep(c)
    \/ \E c \in Conns : Deliver(c)

SpecTerrain == InitTerrain /\ [][NextTerrain]_vars

\* no channel ever records more sends than this
MaxSent == 2 * NConns + HISTORY_SIZE + MaxInbound

\* ---------------------------------------------------------------- reading the logs
\* the positions of the records of a log that satisfy Keep, in log order
Where(log, Keep(_)) == {i \in 1..Len(log) : Keep(log[i])}

IsChatBroadcast(e) == e.phase = "msg" /\ e.msg.type = "ChatMessage"
IsReplayOf(c, e) == e.by = c /\ e.phase = "join" /\ e.msg.type = "ChatMessage"
IsConnectedOf(c, e) == e.by = c /\ e.msg = MsgPlayerConnected(port[c])

\* the place of a chat message in the order history stored the messages
StoredIndex(m) == CHOOSE i \in 1..Len(stored) : stored[i] = m

\* accept_connection of c is between insert (line 209) and remove (line 240)
InSession(c) == pc[c] \notin ({"connecting", "left", "fan_left"} \cup Ended)

\* the session of c ended by itself: undecodable frame, transport end or error
FailedItself(c) == pc[c] \in {"panic_decode", "leaving", "left", "fan_left", "closed"}

\* ---------------------------------------------------------------- C1
\* C1: for every ChunkId the generator Chunk::new is executed exactly once however
\* many fetch_chunk requests arrive: once the chunk is cached, no later request
\* runs the generator again.
C1_GeneratorRunsOnce ==
    \A k \in ChunkIds :
        genCount[k] = IF k \in DOMAIN chunks THEN 1 ELSE 0

\* ---------------------------------------------------------------- C2
\* C2: if history stored chat message m1 before m2, every channel that received
\* both broadcasts received m1 before m2.
C2_BroadcastFollowsHistory ==
    \A ch \in Conns : \A i, j \in 1..Len(enq[ch]) :
        (i < j /\ IsChatBroadcast(enq[ch][i]) /\ IsChatBroadcast(enq[ch][j]))
            => StoredIndex(enq[ch][i].msg.chat) < StoredIndex(enq[ch][j].msg.chat)

\* ---------------------------------------------------------------- C3
\* C3: a failure on connection a never terminates the session of another connection
\* b, and the registry holds no entry of a session that is no longer running.
C3_FailureIsolated ==
    /\ \A a, b \in Conns : (a # b /\ FailedItself(a)) => pc[b] # "panic_send"
    /\ \A k \in DOMAIN players : pc[players[k].tx] \notin Ended

\* ---------------------------------------------------------------- C4
\* C4: a send to a player whose receiver is dropped is a no-op: no task ever ends
\* in the panic of send_server_message's unwrap.
C4_ClosedSendIsNoOp ==
    \A c \in Conns : pc[c] # "panic_send"

\* ---------------------------------------------------------------- C5
\* C5: an inbound frame that does not decode into a PlayerMessage is discarded and
\* the connection goes on reading: no task ever ends in the panic of line 232.
C5_UndecodableIsDiscarded ==
    \A c \in Conns : pc[c] # "panic_decode"

\* ---------------------------------------------------------------- C6
\* C6: the keys of the player registry are exactly the PlayerIds of the connections
\* whose session is running.
C6_RegistryIsRunningSessions ==
    DOMAIN players = {port[c] : c \in {d \in Conns : InSession(d)}}

\* ---------------------------------------------------------------- C7
\* while the receiver of a channel lives, the channel holds at most PLAYER_CH_SIZE
\* messages, and they are exactly the messages sent into it and not yet given to
\* the transport, in the order they were sent
C7_NoOutboundLoss ==
    \A c \in Conns :
        ~closed[c] =>
            /\ Len(queue[c]) <= PLAYER_CH_SIZE
            /\ delivered[c] + Len(queue[c]) = Len(enq[c])
            /\ \A i \in 1..Len(queue[c]) : queue[c][i] = enq[c][delivered[c] + i].msg

\* no send into a full channel returns
C7_FullChannelBlocks ==
    \A c \in Conns :
        (~closed[c] /\ Len(queue[c]) = PLAYER_CH_SIZE) => Len(enq'[c]) <= Len(enq[c])

\* the n-th message sent to a player whose loops run reaches the transport,
\* unless the receiver is dropped first
C7_EventuallyDelivered ==
    \A c \in Conns : \A n \in 1..MaxSent :
        (pc[c] \in SelectRunning /\ Len(enq[c]) >= n)
            ~> (delivered[c] >= n \/ closed[c])

\* C7: no outbound message is dropped for a registered player whose receiver
\* lives: a producer that finds the channel at PLAYER_CH_SIZE messages waits for
\* room, and every message sent into the channel is later given to the transport,
\* in the order of the sends.
C7_NoLossUnderBackpressure ==
    /\ []C7_NoOutboundLoss
    /\ [][C7_FullChannelBlocks]_vars
    /\ C7_EventuallyDelivered

\* a producer waits in its fan-out for room in the full channel of a player whose
\* write_task is running and has already written to the transport
C7_Witness ==
    \E c, p \in Conns :
        /\ pc[c] \in SelectRunning /\ ~closed[c]
        /\ Len(queue[c]) = PLAYER_CH_SIZE
        /\ delivered[c] >= 1
        /\ pc[p] \in FanStates /\ port[c] \in fan[p].todo

C9_EffectsInArrivalOrder ==
    /\ \A ch, c \in Conns : \A i, j \in 1..Len(enq[ch]) :
          (i < j /\ enq[ch][i].by = c /\ enq[ch][j].by = c)
              => enq[ch][i].op <= enq[ch][j].op
    /\ \A i, j \in 1..Len(stored) :
          (i < j /\ stored[i].user_id = stored[j].user_id)
              => stored[i].content < stored[j].content

\* a frame is taken from the stream only when the handler of the previous frame
\* has made all its sends and given back its guard
C9_HandlerReturnedFirst ==
    \A c \in Conns :
        inbox'[c] # inbox[c] =>
            /\ fan[c] = NoFan /\ uni[c] = <<>>
            /\ pc[c] \notin Holding \cup LockStates

\* C9: for two frames m1 then m2 of one connection, every state change and every
\* send caused by m1 happens before any caused by m2, so every recipient sees the
\* effects of a connection's frames in the order the connection sent them.
C9_PerConnectionOrder ==
    /\ []C9_EffectsInArrivalOrder
    /\ [][C9_HandlerReturnedFirst]_vars

\* a channel holds an effect of the first and then of the second frame of a connection
C9_Witness ==
    \E ch \in Conns : \E i, j \in 1..Len(enq[ch]) :
        /\ i < j /\ enq[ch][i].by = enq[ch][j].by
        /\ enq[ch][i].phase = "msg" /\ enq[ch][j].phase = "msg"
        /\ enq[ch][i].op = 1 /\ enq[ch][j].op = 2

\* ---------------------------------------------------------------- C10
\* the chat messages the history replay of c has sent into channel ch, in order
ReplayOf(c, ch) ==
    LET at == Where(enq[ch], LAMBDA e : IsReplayOf(c, e))
        nth[n \in 1..Cardinality(at)] ==
            CHOOSE i \in at : Cardinality({k \in at : k < i}) = n - 1
    IN  [n \in 1..Cardinality(at) |-> enq[ch][nth[n]].msg.chat]

\* the join of c has returned and its channel still records what it received
JoinReturned(c) == pc[c] \in SelectRunning

ChatReturns(c) == pc[c] \in {"chat", "fan_chat"} /\ pc'[c] \notin {"chat", "fan_chat"}

\* reading a Message frame appends one ChatMessage of the sender to the history
C11_AppendsOne ==
    \A c \in Conns :
        (pc[c] = "active" /\ pc'[c] = "chat") =>
            /\ stored' = Append(stored, ChatMessage(port[c], inbox'[c]))
            /\ history'[Len(history')] = ChatMessage(port[c], inbox'[c])

\* the chat operation ends with its message sent to every player that was
\* registered when its fan-out began, the sender among them
C11_ReachesAll ==
    \A c \in Conns :
        ChatReturns(c) =>
            /\ pc'[c] = "active"
            /\ bcast'[c].status = "done"
            /\ bcast'[c].sent = DOMAIN bcast'[c].snap
            /\ port[c] \in bcast'[c].sent

\* no channel gets the broadcast of one chat message twice
C11_SentOnce ==
    \A ch \in Conns : \A i, j \in Where(enq[ch], IsChatBroadcast) :
        enq[ch][i].msg = enq[ch][j].msg => i = j

\* C11: chat(id, text) appends exactly one ChatMessage attributed to id to the
\* history and enqueues that message once to every player registered when the
\* fan-out begins, the sender included.
C11_ChatReachesEveryPlayer ==
    /\ [][C11_AppendsOne /\ C11_ReachesAll]_vars
    /\ []C11_SentOnce

\* ---------------------------------------------------------------- C12
\* the last n entries of a sequence
LastOf(seq, n) == SubSeq(seq, Len(seq) - n + 1, Len(seq))

Min(a, b) == IF a <= b THEN a ELSE b

\* C12: after any sequence of chat operations, concurrent ones included, the
\* history holds at most HISTORY_SIZE messages and equals the most recent
\* min(n, HISTORY_SIZE) of the n messages appended so far, in append order: an
\* append to a full history evicts exactly the oldest entry.
C12_HistoryIsMostRecent ==
    /\ Len(history) <= HISTORY_SIZE
    /\ history = LastOf(stored, Min(Len(stored), HISTORY_SIZE))

\* two connections are in chat operations at once, and both appends evicted
C12_Witness ==
    /\ Len(stored) = 2 * HISTORY_SIZE
    /\ \A i \in 1..Len(history) : history[i] \notin {PastHistory[k] : k \in 1..HISTORY_SIZE}
    /\ \E c, d \in Conns :
          c # d /\ pc[c] \in {"chat", "fan_chat"} /\ pc[d] \in {"chat", "fan_chat"}

\* ---------------------------------------------------------------- C13
\* select! has returned for c: one of its loops ended
LoopsEnded(c) == pc[c] \in {"leaving", "left", "fan_left", "closed"}

\* neither loop of a connection whose select! has returned makes a step, and once
\* line 240 has run the registry has no entry of the connection
C13_SiblingStoppedAndRemoved ==
    \A c \in Conns :
        /\ LoopsEnded(c) => closed[c] /\ queue[c] = <<>> /\ fan[c].msg.type
                                \in {"none", "PlayerDisconnected"}
        /\ pc[c] \in {"left", "fan_left", "closed"} => port[c] \notin DOMAIN players

\* once the entry is removed, send_player_disconnected returns with
\* PlayerDisconnected(id) sent to every player that was registered when its
\* fan-out began, none of them the leaving player
C13_NotifiesAll ==
    \A c \in Conns :
        /\ LoopsEnded(c) => (inbox'[c] = inbox[c] /\ delivered'[c] = delivered[c]
                                /\ LoopsEnded(c)')
        /\ (pc[c] \in {"left", "fan_left"} /\ pc'[c] \notin {"left", "fan_left"}) =>
              /\ pc'[c] = "closed"
              /\ bcast'[c].status = "done"
              /\ bcast'[c].sent = DOMAIN bcast'[c].snap
              /\ port[c] \notin bcast'[c].sent

\* C13: when a loop of a connection ends, the sibling loop is stopped, the player
\* is removed from the registry, and the task then runs to its end with
\* PlayerDisconnected(id) enqueued to every player still registered and never to
\* the leaving player.
C13_LeaveNotifiesEveryPeer ==
    /\ []C13_SiblingStoppedAndRemoved
    /\ [][C13_NotifiesAll]_vars

\* ---------------------------------------------------------------- C14
\* the PlayerId of c, which every operation of c names, has no entry
IdAbsent(c) == port[c] \notin DOMAIN players

\* C14: an operation that names a PlayerId absent from the registry is reported
\* as an error: update_position does not go on to its broadcast as if the update
\* had happened, list_players and fetch_chunk do not abort the task, and the
\* registry is left as it was.
C14_AbsentIdIsReported ==
    \A c \in Conns :
        IdAbsent(c) =>
            /\ ~(pc[c] = "active" /\ pc'[c] = "moved")
            /\ (pc[c] \in {"list_lock", "chunk_lock"} => pc'[c] # "panic_index")
            /\ (pc[c] \in SelectRunning /\ pc'[c] # pc[c]) => players' = players

C14_AbsentIdIsReportedError == [][C14_AbsentIdIsReported]_vars

\* ---------------------------------------------------------------- C15
\* C15: a PlayerId is unique per active connection: no two connections whose
\* sessions run (between insert, line 209, and remove, line 240) have the same
\* PlayerId, so the entry of a connection is its own from its join to its leave
\* (no other join overwrites it, no other leave removes it).
C15_PlayerIdUnique ==
    \A c \in Conns :
        InSession(c) =>
            /\ \A d \in Conns \ {c} : InSession(d) => port[d] # port[c]
            /\ port[c] \in DOMAIN players
            /\ players[port[c]].tx = c

\* ---------------------------------------------------------------- C16
\* the Players messages a channel has received
IsPlayers(e) == e.msg.type = "Players"

\* while send_player_list holds its guard, its one message lists exactly the keys
\* of the registry: the requester, every other connection whose session runs, and
\* no connection that has not joined yet or has removed its entry; and every
\* Players message in a channel was sent by the channel's own connection, one for
\* each FetchPlayers frame
C16_ListIsRegistry ==
    /\ \A c \in Conns :
          pc[c] = "list" =>
              /\ uni[c] = <<MsgPlayers(DOMAIN players)>>
              /\ port[c] \in DOMAIN players
              /\ \A d \in Conns :
                    /\ InSession(d) => port[d] \in DOMAIN players
                    /\ pc[d] \in {"connecting", "left", "fan_left", "closed"}
                          => port[d] \notin DOMAIN players
    /\ \A ch \in Conns : \A i, j \in Where(enq[ch], IsPlayers) :
          /\ enq[ch][i].by = ch
          /\ enq[ch][i].op = enq[ch][j].op => i = j

\* send_player_list returns having sent the list of that moment to the requester
\* and nothing to anyone else
C16_SendsToRequester ==
    \A c \in Conns :
        (pc[c] = "list" /\ pc'[c] = "active") =>
            /\ enq'[c] = Append(enq[c], Sent(c, MsgPlayers(DOMAIN players)))
            /\ \A ch \in Conns \ {c} : enq'[ch] = enq[ch]
            /\ players' = players

IsChunk(e) == e.msg.type = "Chunk"

\* every cached chunk is the one the first execution of the generator for its id
\* made; a send_chunk in progress holds a copy of the cached chunk; every Chunk
\* message in a channel was sent by the channel's own connection and is equal to
\* the cached chunk of its id
C17_FetchesSeeTheCache ==
    /\ DOMAIN chunkGen = DOMAIN chunks
    /\ \A k \in DOMAIN chunks : chunks[k].id = k /\ chunkGen[k] = 1
    /\ \A c \in Conns :
          pc[c] \in {"chunk_lock", "chunk"} =>
              \E k \in DOMAIN chunks : uni[c] = <<MsgChunk(chunks[k])>>
    /\ \A ch \in Conns : \A i \in Where(enq[ch], IsChunk) :
          /\ enq[ch][i].by = ch
          /\ enq[ch][i].msg.chunk.id \in DOMAIN chunks
          /\ enq[ch][i].msg.chunk = chunks[enq[ch][i].msg.chunk.id]

\* no step replaces or removes an entry of the cache
C17_EntryKept ==
    \A k \in DOMAIN chunks :
        /\ k \in DOMAIN chunks'
        /\ chunks'[k] = chunks[k]
        /\ chunkGen'[k] = chunkGen[k]

LayerOf(h, z) ==
    CASE z >= h -> NoBlock
      [] z = h - 1 -> 3
      [] z \in (h - 4)..(h - 2) -> 2
      [] OTHER -> 1

\* the cells of the column (x, y) of a chunk, bottom first
ColumnOf(chunk, x, y) == [z \in 0..(HEIGHT - 1) |-> chunk.blocks[GetBlockIndex(x, y, z)]]

\* C18: every column of a generated chunk has a height h with
\* MIN_TERRAIN_HEIGHT <= h <= MAX_TERRAIN_HEIGHT; its cells z < h are filled and
\* its cells z >= h are empty; the topmost filled cell (z = h - 1) is the surface
\* block 3, the 3 cells below it are the subsurface block 2 and every deeper cell
\* is the fill block 1.
C18_ColumnLayers ==
    \A k \in DOMAIN chunks : \A x, y \in 0..(WIDTH - 1) :
        \E h \in MIN_TERRAIN_HEIGHT..MAX_TERRAIN_HEIGHT :
            \A z \in 0..(HEIGHT - 1) : ColumnOf(chunks[k], x, y)[z] = LayerOf(h, z)

\* ---------------------------------------------------------------- C19
IsChat(e) == e.msg.type = "ChatMessage"

\* C19: a chat message is enqueued to a player's channel at most once, broadcast
\* and history replay taken together: a joiner that got a message through the
\* broadcast does not get it again through its replay.
C19_ChatEnqueuedOnce ==
    \A ch \in Conns : \A i, j \in Where(enq[ch], IsChat) :
        enq[ch][i].msg = enq[ch][j].msg => i = j

\* ---------------------------------------------------------------- C20
\* c is in a fan-out or a unicast, holds its read guard of State.players, and the
\* channel of a player it has still to send to is full
BlockedOnFull(c) ==
    \/ /\ pc[c] \in FanStates
       /\ \E t \in fan[c].todo \cap DOMAIN players :
             ~closed[players[t].tx] /\ ~HasRoom(players[t].tx)
    \/ /\ pc[c] \in UniStates
       /\ port[c] \in DOMAIN players
       /\ ~closed[players[port[c]].tx] /\ ~HasRoom(players[port[c]].tx)

\* no step taken while a producer waits changes the registry: no join inserts, no
\* leave removes, no position update is applied
C20_NoWriteWhileBlocked ==
    (\E c \in Conns : BlockedOnFull(c)) =>
        /\ players' = players
        /\ \A d \in Conns :
              /\ pc[d] = "connecting" => pc'[d] = "connecting"
              /\ pc[d] = "leaving" => pc'[d] = "leaving"
              /\ pc[d] = "active" => pc'[d] # "moved"

\* C20: a producer that waits for room in a player's full channel keeps its read
\* guard of the registry for the whole wait, so no join, leave or position update
\* of any connection takes effect before the wait ends; while the channel stays
\* full they do not complete.
C20_BlockedProducerBlocksWriters == [][C20_NoWriteWhileBlocked]_vars

\* a joiner waits in its history replay for room in its own full channel, which
\* nothing drains before the join returns, while another connection waits to
\* remove its entry
C20_Witness ==
    \E c, d \in Conns :
        /\ pc[c] = "replay" /\ BlockedOnFull(c)
        /\ pc[d] = "leaving"

====
